---- MODULE Spec2Model ----
(***************************************************************************)
(* Model of the structural object functions of src/src/modules/object.ts   *)
(* (deepClone, deepMerge, isObject, flattenObject, isEqual), of the timing *)
(* wrappers debounce and throttle, of createNamespacedStorage of           *)
(* src/src/modules/storage.ts and of truncate of src/src/modules/string.ts.*)
(*                                                                         *)
(* JavaScript objects and arrays have identity, so they live in a heap: a  *)
(* sequence of nodes addressed by their index.  A node keeps its own       *)
(* enumerable properties as a list of entries in insertion order, which is *)
(* the order Object.keys enumerates them in.  An array node keeps one      *)
(* entry per index, keyed by the index written as a decimal string.        *)
(* Property names are sequences of one-character strings, so that the      *)
(* dotted paths flattenObject builds are computed, not assumed.            *)
(* Keys range over ordinary property names (no name that Object.prototype  *)
(* defines); primitives are numbers, NaN and null.                         *)
(*                                                                         *)
(* Each function has its own specification (SpecClone, SpecMerge, ...);    *)
(* the variables a specification does not use stay at their idle values.   *)
(***************************************************************************)
EXTENDS Integers, Sequences, FiniteSets, TLC

VARIABLES heap,    \* the current heap: Seq of nodes
          heap0,   \* the heap as the caller built it, before the call
          heapOp,  \* the heap as it was when the call returned
          a,       \* first argument  (value)
          b,       \* second argument (value)
          res,     \* the value the call returned
          pc,      \* "init", "cloned", "merged", "flat", "mutated", ...
          mutAt    \* address of the node the caller mutated afterwards, or 0

\* the recursion of the structural functions, one call frame at a time
VARIABLES stack,   \* the call stack: Seq of frames, the innermost call last
          steps    \* the number of steps the running call has taken

\* the host clock and timer facility, and the closures of debounce/throttle
VARIABLES now,       \* Date.now()
          timers,    \* the pending host timers: set of [id, due, arg]
          nextId,    \* the handle the next setTimeout returns
          timeout,   \* debounce: let timeout
          lastFunc,  \* throttle: let lastFunc
          lastRan,   \* throttle: let lastRan
          calls,     \* history: the calls of the wrapper, [t, arg]
          invs       \* history: the invocations of func, [t, arg, via]

\* localStorage and the items each namespaced storage has set
VARIABLES ls,      \* localStorage: set of [k, v], one per stored key
          owned,   \* history: set of [ns, key, val] set and not yet removed
          lastOp   \* history: the latest storage operation, [op, ns]

\* truncate
VARIABLES str, length, suffix,  \* the arguments
          out                   \* the returned string

objVars == <<heap, heap0, heapOp, a, b, res, pc, mutAt>>
termVars == <<stack, steps>>
timeVars == <<now, timers, nextId, timeout, lastFunc, lastRan, calls, invs>>
storeVars == <<ls, owned, lastOp>>
strVars == <<str, length, suffix, out>>

vars == <<objVars, termVars, timeVars, storeVars, strVars>>

----------------------------------------------------------------------------
(* Bounds of the enumerated inputs: the total number of entries (properties *)
(* plus array elements, at every depth) of the arguments of each call.      *)
CloneSize == 3
MergeSize == 4
FlatSize == 3
EqualSize == 3
TermSize == 3

(* Bounds of the timing scenarios: the delay given to debounce and throttle, *)
(* the last instant of the clock and the number of calls of the wrapper.     *)
WaitMs == 3
LimitMs == 3
MaxTime == 8
MaxCalls == 3

(* Bound of the storage scenarios: the values stored are 1..MaxVal. *)
MaxVal == 2

(* Bounds of the arguments of truncate: the length of str and of the length *)
(* argument, and the length of the suffix.                                  *)
MaxStr == 3
MaxSuffix == 3

----------------------------------------------------------------------------
(* Values *)
Num(n) == [t |-> "num", v |-> n]
NaN == [t |-> "nan", v |-> 0]
Null == [t |-> "null", v |-> 0]
Undefined == [t |-> "undef", v |-> 0]
Ref(p) == [t |-> "ref", v |-> p]

KA == <<"a">>
KB == <<"b">>
KAB == <<"a", ".", "b">>
KEmpty == <<>>
Dot == <<".">>

Digits == <<"0", "1", "2", "3", "4", "5", "6", "7", "8", "9">>

RECURSIVE IdxStr(_)
\* String(i) for an array index i >= 0
IdxStr(i) ==
  IF i < 10 THEN <<Digits[i + 1]>>
  ELSE IdxStr(i \div 10) \o <<Digits[(i % 10) + 1]>>

----------------------------------------------------------------------------
(* Heap primitives *)

IsRef(x) == x.t = "ref"

\* Array.isArray(x)
IsArray(h, x) == IsRef(x) /\ h[x.v].kind = "seq"

\* typeof x === "object"  (true of null, objects and arrays)
TypeofObject(x) == x.t \in {"ref", "null"}

\* Object.keys(x) of an object or array, in enumeration order
ObjectKeys(h, x) == [i \in 1..Len(h[x.v].ents) |-> h[x.v].ents[i].k]

KeySet(h, x) == {h[x.v].ents[i].k : i \in 1..Len(h[x.v].ents)}

\* key in x, for an object or array x
HasKey(h, x, key) == key \in KeySet(h, x)

\* x[key]
Get(h, x, key) ==
  IF IsRef(x) /\ HasKey(h, x, key)
  THEN LET i == CHOOSE j \in 1..Len(h[x.v].ents) : h[x.v].ents[j].k = key
       IN h[x.v].ents[i].v
  ELSE Undefined

\* node[key] = val on the node at address p: an existing property keeps its
\* place, a new one is added last
SetProp(h, p, key, val) ==
  LET es == h[p].ents
      at == {j \in 1..Len(es) : es[j].k = key}
      es2 == IF at = {}
             THEN Append(es, [k |-> key, v |-> val])
             ELSE [j \in 1..Len(es) |-> IF j \in at THEN [k |-> key, v |-> val] ELSE es[j]]
  IN [h EXCEPT ![p] = [kind |-> h[p].kind, ents |-> es2]]

\* a fresh empty object ({}) or array: the heap with it, its address is Len
New(h, kind) == Append(h, [kind |-> kind, ents |-> <<>>])

RECURSIVE ReachFrom(_, _)
\* the addresses of the objects and arrays reachable from value x
ReachFrom(h, x) ==
  IF ~IsRef(x) THEN {}
  ELSE {x.v} \cup UNION {ReachFrom(h, h[x.v].ents[i].v) : i \in 1..Len(h[x.v].ents)}

----------------------------------------------------------------------------
(* Plain Values as terms, used to enumerate inputs and to compare contents *)

TPrim(x) == [t |-> x.t, v |-> x.v, ents |-> <<>>]
TMap(es) == [t |-> "map", v |-> 0, ents |-> es]
TSeq(es) == [t |-> "seq", v |-> 0, ents |-> es]

Prims == {Num(1), Num(2), NaN, Null}

RECURSIVE Size(_), SumSize(_)
Size(t) == SumSize(t.ents)
SumSize(es) == IF es = <<>> THEN 0 ELSE 1 + Size(Head(es).c) + SumSize(Tail(es))

RECURSIVE Vals(_, _, _), MapEnts(_, _, _, _), SeqEnts(_, _, _, _)
\* every Plain Value with primitives among ps, keys among ks (inserted in that
\* order) and at most n entries in all
Vals(ps, ks, n) ==
  {TPrim(x) : x \in ps}
    \cup {TMap(e) : e \in MapEnts(ps, ks, ks, n)}
    \cup {TSeq(e) : e \in SeqEnts(ps, ks, n, 0)}
MapEnts(ps, all, ks, n) ==
  IF ks = <<>> \/ n = 0 THEN {<<>>}
  ELSE MapEnts(ps, all, Tail(ks), n)
         \cup UNION {{<<[k |-> Head(ks), c |-> c]>> \o rest :
                        rest \in MapEnts(ps, all, Tail(ks), n - 1 - Size(c))} :
                     c \in Vals(ps, all, n - 1)}
SeqEnts(ps, all, n, i) ==
  IF n = 0 THEN {<<>>}
  ELSE {<<>>}
         \cup UNION {{<<[k |-> IdxStr(i), c |-> c]>> \o rest :
                        rest \in SeqEnts(ps, all, n - 1 - Size(c), i + 1)} :
                     c \in Vals(ps, all, n - 1)}

\* the mappings among them
Maps(ps, ks, n) == {TMap(e) : e \in MapEnts(ps, ks, ks, n)}

RECURSIVE Alloc(_, _), AllocEnts(_, _, _)
\* build term t in heap h: [h |-> the heap, r |-> the value]
Alloc(h, t) ==
  IF t.t \notin {"map", "seq"} THEN [h |-> h, r |-> [t |-> t.t, v |-> t.v]]
  ELSE AllocEnts(New(h, t.t), Len(h) + 1, t.ents)
AllocEnts(h, p, es) ==
  IF es = <<>> THEN [h |-> h, r |-> Ref(p)]
  ELSE LET c == Alloc(h, Head(es).c)
       IN AllocEnts(SetProp(c.h, p, Head(es).k, c.r), p, Tail(es))

RECURSIVE Read(_, _)
\* the contents of value x in heap h, as a term
Read(h, x) ==
  IF ~IsRef(x) THEN TPrim(x)
  ELSE [t |-> h[x.v].kind, v |-> 0,
        ents |-> [i \in 1..Len(h[x.v].ents) |->
                    [k |-> h[x.v].ents[i].k, c |-> Read(h, h[x.v].ents[i].v)]]]

----------------------------------------------------------------------------
(* isObject *)
isObject(h, item) == IsRef(item) /\ ~IsArray(h, item)

----------------------------------------------------------------------------
(* deepClone *)

RECURSIVE deepClone(_, _), cloneInto(_, _, _, _)

\* the recursive call on one child: (item) => deepClone(item), deepClone(obj[key])
cloneEntryShallow(h, item) == [h |-> h, r |-> item]
cloneEntry(h, item) == deepClone(h, item)

\* result[key] = deepClone(obj[key]) for each key, then result
cloneInto(h, obj, result, keys) ==
  IF keys = <<>> THEN [h |-> h, r |-> Ref(result)]
  ELSE LET c == cloneEntry(h, Get(h, obj, Head(keys)))
       IN cloneInto(SetProp(c.h, result, Head(keys), c.r), obj, result, Tail(keys))

deepClone(h, obj) ==
  IF obj.t = "null" \/ ~TypeofObject(obj) THEN [h |-> h, r |-> obj]
  ELSE IF IsArray(h, obj)
       THEN cloneInto(New(h, "seq"), obj, Len(h) + 1, ObjectKeys(h, obj))
       ELSE cloneInto(New(h, "map"), obj, Len(h) + 1, ObjectKeys(h, obj))

----------------------------------------------------------------------------
(* deepMerge *)

\* const output = { ...target }: a fresh object holding target's own
\* enumerable properties (none for a primitive or null, the index
\* properties for an array): [h |-> the heap, p |-> output's address]
spreadAlias(h, target) ==
  IF IsRef(target) THEN [h |-> h, p |-> target.v]
  ELSE [h |-> New(h, "map"), p |-> Len(h) + 1]
spreadEmpty(h, target) == [h |-> New(h, "map"), p |-> Len(h) + 1]
spreadCopy(h, target) ==
  [h |-> Append(h, [kind |-> "map",
                    ents |-> IF IsRef(target) THEN h[target.v].ents ELSE <<>>]),
   p |-> Len(h) + 1]

\* Object.assign(output, { [key]: source[key] }) when source[key] is an
\* object and target has no such key
attachCloned(h, output, key, sv) ==
  LET c == deepClone(h, sv) IN SetProp(c.h, output, key, c.r)
attachNew(h, output, key, sv) == SetProp(h, output, key, sv)

\* Object.assign(output, { [key]: source[key] }) when source[key] is not an
\* object
assignKeepTarget(h, output, key, sv) ==
  IF HasKey(h, Ref(output), key) THEN h ELSE SetProp(h, output, key, sv)
assignLeaf(h, output, key, sv) == SetProp(h, output, key, sv)

RECURSIVE deepMerge(_, _, _), mergeKeys(_, _, _, _, _)

\* the body of Object.keys(source).forEach, then output
mergeKeys(h, target, source, output, keys) ==
  IF keys = <<>> THEN [h |-> h, r |-> Ref(output)]
  ELSE LET key == Head(keys)
           sv == Get(h, source, key)
       IN IF isObject(h, sv)
          THEN IF ~HasKey(h, target, key)
               THEN mergeKeys(attachNew(h, output, key, sv),
                              target, source, output, Tail(keys))
               ELSE LET m == deepMerge(h, Get(h, target, key), sv)
                    IN mergeKeys(SetProp(m.h, output, key, m.r),
                                 target, source, output, Tail(keys))
          ELSE mergeKeys(assignLeaf(h, output, key, sv),
                         target, source, output, Tail(keys))

deepMerge(h, target, source) ==
  LET o == spreadCopy(h, target)
  IN IF isObject(h, target) /\ isObject(h, source)
     THEN mergeKeys(o.h, target, source, o.p, ObjectKeys(h, source))
     ELSE [h |-> o.h, r |-> Ref(o.p)]

----------------------------------------------------------------------------
(* flattenObject *)

\* const pre = prefix.length ? `${prefix}.` : ""
preNone(prefix) == <<>>
preOf(prefix) == IF Len(prefix) # 0 THEN prefix \o Dot ELSE <<>>

\* isObject(obj[k]) && Object.keys(obj[k]).length > 0
descendsAny(h, v) == isObject(h, v)
descends(h, v) == isObject(h, v) /\ Len(ObjectKeys(h, v)) > 0

RECURSIVE assignAll(_, _, _)
\* Object.assign(acc, src): acc[key] = src[key] for each own key of src
assignAll(h, acc, es) ==
  IF es = <<>> THEN h
  ELSE assignAll(SetProp(h, acc, Head(es).k, Head(es).v), acc, Tail(es))

RECURSIVE flattenObject(_, _, _), flattenKeys(_, _, _, _, _)

\* the reducer over Object.keys(obj), then acc
flattenKeys(h, obj, prefix, acc, keys) ==
  IF keys = <<>> THEN [h |-> h, r |-> Ref(acc)]
  ELSE LET k == Head(keys)
           pre == preOf(prefix)
           v == Get(h, obj, k)
       IN IF descends(h, v)
          THEN LET sub == flattenObject(h, v, pre \o k)
               IN flattenKeys(assignAll(sub.h, acc, sub.h[sub.r.v].ents),
                              obj, prefix, acc, Tail(keys))
          ELSE flattenKeys(SetProp(h, acc, pre \o k, v),
                           obj, prefix, acc, Tail(keys))

flattenObject(h, obj, prefix) ==
  flattenKeys(New(h, "map"), obj, prefix, Len(h) + 1, ObjectKeys(h, obj))

----------------------------------------------------------------------------
(* isEqual *)

\* x === y: NaN is not equal to itself, objects are equal by identity
StrictEqSameValue(x, y) == x.t = y.t /\ x.v = y.v
StrictEq(x, y) == x.t = y.t /\ x.v = y.v /\ x.t # "nan"

\* keysA.length !== keysB.length
lengthsDifferNever(keysA, keysB) == FALSE
lengthsDiffer(keysA, keysB) == Len(keysA) # Len(keysB)

RECURSIVE isEqual(_, _, _)
isEqual(h, objA, objB) ==
  IF StrictEq(objA, objB) THEN TRUE
  ELSE IF ~TypeofObject(objA) \/ ~TypeofObject(objB) \/ objA.t = "null" \/ objB.t = "null"
       THEN StrictEq(objA, objB)
  ELSE LET keysA == ObjectKeys(h, objA)
           keysB == ObjectKeys(h, objB)
       IN IF lengthsDiffer(keysA, keysB) THEN FALSE
          ELSE \A i \in 1..Len(keysA) :
                 /\ \E j \in 1..Len(keysB) : keysB[j] = keysA[i]
                 /\ isEqual(h, Get(h, objA, keysA[i]), Get(h, objB, keysA[i]))

----------------------------------------------------------------------------
(* The idle values of the variables a specification does not use *)
ObjIdle ==
  /\ heap = <<>> /\ heap0 = <<>> /\ heapOp = <<>>
  /\ a = Undefined /\ b = Undefined /\ res = Undefined
  /\ pc = "init" /\ mutAt = 0

TermIdle == stack = <<>> /\ steps = 0

TimeIdle ==
  /\ now = 0 /\ timers = {} /\ nextId = 1
  /\ timeout = Null /\ lastFunc = Undefined /\ lastRan = Undefined
  /\ calls = <<>> /\ invs = <<>>

StoreIdle == ls = {} /\ owned = {} /\ lastOp = [op |-> "none", ns |-> <<>>]

StrIdle == str = <<>> /\ length = 0 /\ suffix = <<>> /\ out = <<>>

OthersIdle == TermIdle /\ TimeIdle /\ StoreIdle /\ StrIdle

----------------------------------------------------------------------------
(* The caller *)

CloneKeys == <<KA, KB>>

\* A later mutation by the caller: node[key] = 9 on a node reachable from r
MutKeys(h, p) == IF h[p].kind = "seq" THEN {IdxStr(0)} ELSE {KA}
Marker == Num(9)

InitClone ==
  \E t \in Vals(Prims, CloneKeys, CloneSize) :
    LET al == Alloc(<<>>, t)
    IN /\ heap = al.h
       /\ heap0 = al.h
       /\ heapOp = al.h
       /\ a = al.r
       /\ b = Undefined
       /\ res = Undefined
       /\ pc = "init"
       /\ mutAt = 0
       /\ OthersIdle

DeepCloneStep ==
  /\ pc = "init"
  /\ LET c == deepClone(heap, a)
     IN /\ heap' = c.h
        /\ heapOp' = c.h
        /\ res' = c.r
  /\ pc' = "cloned"
  /\ UNCHANGED <<heap0, a, b, mutAt, termVars, timeVars, storeVars, strVars>>

\* the caller writes to a node of the returned value
MutateResult ==
  /\ pc \in {"cloned", "merged"}
  /\ \E p \in ReachFrom(heap, res) :
       \E key \in MutKeys(heap, p) :
         /\ heap' = SetProp(heap, p, key, Marker)
         /\ mutAt' = p
  /\ pc' = "mutated"
  /\ UNCHANGED <<heap0, heapOp, a, b, res, termVars, timeVars, storeVars, strVars>>

\* the caller writes to a node of the argument
MutateInput ==
  /\ pc \in {"cloned", "merged"}
  /\ \E p \in ReachFrom(heap, a) :
       \E key \in MutKeys(heap, p) :
         /\ heap' = SetProp(heap, p, key, Marker)
         /\ mutAt' = p
  /\ pc' = "mutated"
  /\ UNCHANGED <<heap0, heapOp, a, b, res, termVars, timeVars, storeVars, strVars>>

MergeKeys == <<KA, KB>>
MergePrims == {Num(1), Num(2), Null}

InitMerge ==
  \E n \in 0..MergeSize :
    \E ta \in Maps(MergePrims, MergeKeys, n), tb \in Maps(MergePrims, MergeKeys, MergeSize - n) :
      LET al == Alloc(<<>>, ta)
          bl == Alloc(al.h, tb)
      IN /\ heap = bl.h
         /\ heap0 = bl.h
         /\ heapOp = bl.h
         /\ a = al.r
         /\ b = bl.r
         /\ res = Undefined
         /\ pc = "init"
         /\ mutAt = 0
         /\ OthersIdle

DeepMergeStep ==
  /\ pc = "init"
  /\ LET m == deepMerge(heap, a, b)
     IN /\ heap' = m.h
        /\ heapOp' = m.h
        /\ res' = m.r
  /\ pc' = "merged"
  /\ UNCHANGED <<heap0, a, b, mutAt, termVars, timeVars, storeVars, strVars>>

FlatKeys == <<KA, KB, KAB, KEmpty>>
FlatPrims == {Num(1), Num(2), Null}

InitFlatten ==
  \E t \in Maps(FlatPrims, FlatKeys, FlatSize) :
    LET al == Alloc(<<>>, t)
    IN /\ heap = al.h
       /\ heap0 = al.h
       /\ heapOp = al.h
       /\ a = al.r
       /\ b = Undefined
       /\ res = Undefined
       /\ pc = "init"
       /\ mutAt = 0
       /\ OthersIdle

FlattenStep ==
  /\ pc = "init"
  /\ LET f == flattenObject(heap, a, <<>>)
     IN /\ heap' = f.h
        /\ heapOp' = f.h
        /\ res' = f.r
  /\ pc' = "flat"
  /\ UNCHANGED <<heap0, a, b, mutAt, termVars, timeVars, storeVars, strVars>>

\* a boolean result as a value
Bool(x) == [t |-> "bool", v |-> IF x THEN 1 ELSE 0]

K0 == IdxStr(0)
EqualKeys == <<K0, KA>>
EqualKeysRev == <<KA, K0>>
EqualPrims == {Num(1), NaN, Null}

\* isEqual(a, b) on two values built apart, or on one value given twice
InitEqual ==
  /\ \E n \in 0..EqualSize :
       \E ta \in Vals(EqualPrims, EqualKeys, n) :
         \E tb \in Vals(EqualPrims, EqualKeysRev, EqualSize - n) \cup {TMap(<<>>)} :
           LET al == Alloc(<<>>, ta)
               bl == Alloc(al.h, tb)
           IN \/ /\ heap = bl.h
                 /\ a = al.r
                 /\ b = bl.r
              \/ /\ tb = TMap(<<>>)
                 /\ heap = al.h
                 /\ a = al.r
                 /\ b = al.r
  /\ heap0 = heap
  /\ heapOp = heap
  /\ res = Undefined
  /\ pc = "init"
  /\ mutAt = 0
  /\ OthersIdle

IsEqualStep ==
  /\ pc = "init"
  /\ res' = Bool(isEqual(heap, a, b))
  /\ pc' = "equal"
  /\ UNCHANGED <<heap, heap0, heapOp, a, b, mutAt, termVars, timeVars, storeVars, strVars>>

----------------------------------------------------------------------------
(* The recursion of deepClone, deepMerge, flattenObject and isEqual, one     *)
(* call frame at a time.  A frame is a call in progress: the function, its   *)
(* arguments x and y, and the number i of keys its loop has dealt with.      *)

Frame(f, x, y) == [f |-> f, x |-> x, y |-> y, i |-> 0]

\* isObject(target) && isObject(source)
sourceIsObject(h, target, source) == isObject(h, source)
bothObjects(h, target, source) == isObject(h, target) /\ isObject(h, source)

\* the keys the loop of the call runs over (map, reduce, forEach, every);
\* none when the call returns before its loop
Iter(h, fr) ==
  CASE fr.f = "clone" ->
         IF fr.x.t = "null" \/ ~TypeofObject(fr.x) THEN <<>> ELSE ObjectKeys(h, fr.x)
    [] fr.f = "merge" ->
         IF bothObjects(h, fr.x, fr.y) THEN ObjectKeys(h, fr.y) ELSE <<>>
    [] fr.f = "flatten" -> ObjectKeys(h, fr.x)
    [] fr.f = "equal" ->
         IF \/ StrictEq(fr.x, fr.y)
            \/ ~TypeofObject(fr.x) \/ ~TypeofObject(fr.y)
            \/ fr.x.t = "null" \/ fr.y.t = "null"
         THEN <<>>
         ELSE IF lengthsDiffer(ObjectKeys(h, fr.x), ObjectKeys(h, fr.y)) THEN <<>>
         ELSE ObjectKeys(h, fr.x)

\* the loop of the call is over: every key is dealt with, or the callback of
\* keysA.every has returned false
LoopDone(h, fr) ==
  LET keys == Iter(h, fr)
  IN \/ fr.i = Len(keys)
     \/ /\ fr.f = "equal"
        /\ \/ fr.i >= 1 /\ ~isEqual(h, Get(h, fr.x, keys[fr.i]), Get(h, fr.y, keys[fr.i]))
           \/ fr.i < Len(keys) /\ ~HasKey(h, fr.y, keys[fr.i + 1])

\* dealing with this key raises a TypeError: `key in target` on a target that
\* is not an object
Throws(h, fr, key) ==
  fr.f = "merge" /\ isObject(h, Get(h, fr.y, key)) /\ ~IsRef(fr.x)

\* the recursive calls made for this key: a sequence of no or one frame
Recursion(h, fr, key) ==
  CASE fr.f = "clone" -> <<Frame("clone", Get(h, fr.x, key), Undefined)>>
    [] fr.f = "merge" ->
         IF isObject(h, Get(h, fr.y, key)) /\ HasKey(h, fr.x, key)
         THEN <<Frame("merge", Get(h, fr.x, key), Get(h, fr.y, key))>>
         ELSE <<>>
    [] fr.f = "flatten" ->
         IF descends(h, Get(h, fr.x, key))
         THEN <<Frame("flatten", Get(h, fr.x, key), Undefined)>>
         ELSE <<>>
    [] fr.f = "equal" -> <<Frame("equal", Get(h, fr.x, key), Get(h, fr.y, key))>>

\* the innermost call deals with its next key
LoopStep ==
  /\ pc = "running"
  /\ stack # <<>>
  /\ LET n == Len(stack)
         fr == stack[n]
     IN /\ ~LoopDone(heap, fr)
        /\ LET key == Iter(heap, fr)[fr.i + 1]
           IN IF Throws(heap, fr, key)
              THEN /\ pc' = "error"
                   /\ stack' = stack
              ELSE /\ pc' = pc
                   /\ stack' = [stack EXCEPT ![n].i = fr.i + 1] \o Recursion(heap, fr, key)
  /\ steps' = steps + 1
  /\ UNCHANGED <<heap, heap0, heapOp, a, b, res, mutAt, timeVars, storeVars, strVars>>

\* the innermost call returns
ReturnStep ==
  /\ pc = "running"
  /\ stack # <<>>
  /\ LoopDone(heap, stack[Len(stack)])
  /\ stack' = SubSeq(stack, 1, Len(stack) - 1)
  /\ pc' = IF Len(stack) = 1 THEN "returned" ELSE pc
  /\ steps' = steps + 1
  /\ UNCHANGED <<heap, heap0, heapOp, a, b, res, mutAt, timeVars, storeVars, strVars>>

\* one call of one of the four functions on arguments of at most TermSize
\* entries: deepClone(a), deepMerge(a, b), flattenObject(a), isEqual(a, b)
InitTerm ==
  /\ \E n \in 0..TermSize :
       \E ta \in Vals(MergePrims, MergeKeys, n), tb \in Vals(MergePrims, MergeKeys, TermSize - n) :
         LET al == Alloc(<<>>, ta)
             bl == Alloc(al.h, tb)
         IN /\ heap = bl.h
            /\ a = al.r
            /\ \/ b = bl.r /\ stack = <<Frame("equal", a, b)>>
               \/ /\ b = bl.r
                  /\ isObject(heap, a) /\ isObject(heap, b)
                  /\ stack = <<Frame("merge", a, b)>>
               \/ /\ tb = TPrim(Null)
                  /\ b = Undefined
                  /\ \/ stack = <<Frame("clone", a, b)>>
                     \/ isObject(heap, a) /\ stack = <<Frame("flatten", a, b)>>
  /\ heap0 = heap /\ heapOp = heap
  /\ res = Undefined /\ mutAt = 0
  /\ pc = "running"
  /\ steps = 0
  /\ TimeIdle /\ StoreIdle /\ StrIdle

SpecTerm == InitTerm /\ [][LoopStep \/ ReturnStep]_vars

----------------------------------------------------------------------------
(* The host clock and timer facility *)

\* !x
Falsy(x) == x.t \in {"undef", "null", "nan"} \/ (x.t = "num" /\ x.v = 0)

\* setTimeout(callback, delay) at the instant now, with handle id; the
\* callback is known by the call whose arguments and receiver it captured.
\* A delay below 0 counts as 0.
setTimeoutAtOnce(ts, id, delay, arg) ==
  ts \cup {[id |-> id, due |-> now, arg |-> arg]}
setTimeout(ts, id, delay, arg) ==
  ts \cup {[id |-> id, due |-> now + (IF delay < 0 THEN 0 ELSE delay), arg |-> arg]}

\* clearTimeout(handle): no effect for a handle that is not pending
clearTimeoutNoop(ts, handle) == ts
clearTimeout(ts, handle) == {tm \in ts : Num(tm.id) # handle}

\* the pending timers whose delay has elapsed
Due == {tm \in timers : tm.due <= now}

\* One millisecond passes.  The timer facility is punctual: a timer fires at
\* the instant it is due, before the clock moves on.  The clock runs to
\* MaxTime, and on for as long as a timer is pending.
Tick ==
  /\ now < MaxTime \/ timers # {}
  /\ Due = {}
  /\ now' = now + 1
  /\ UNCHANGED <<timers, nextId, timeout, lastFunc, lastRan, calls, invs,
                 objVars, termVars, storeVars, strVars>>

\* func.apply(this, args), from a wrapper call or from a timer callback
InvokeNothing(arg, via) == invs
Invoke(arg, via) == Append(invs, [t |-> now, arg |-> arg, via |-> via])

\* a call of the wrapper, known by its position among the calls; the wrapper
\* has no return statement
Called == Append(calls, [t |-> now, arg |-> Len(calls) + 1, ret |-> Undefined])

----------------------------------------------------------------------------
(* debounce *)

\* if (timeout)
pendingNever(handle) == FALSE
pending(handle) == ~Falsy(handle)

\* the function debounce returns, called at the instant now; a timer due at
\* this instant has fired first
DebounceCall ==
  /\ Len(calls) < MaxCalls
  /\ Due = {}
  /\ LET arg == Len(calls) + 1
         ts == IF pending(timeout) THEN clearTimeout(timers, timeout) ELSE timers
     IN /\ timers' = setTimeout(ts, nextId, WaitMs, arg)
        /\ timeout' = Num(nextId)
        /\ nextId' = nextId + 1
  /\ calls' = Called
  /\ UNCHANGED <<now, lastFunc, lastRan, invs, objVars, termVars, storeVars, strVars>>

\* the timer callback of debounce: () => { func.apply(this, args) }
DebounceFire ==
  \E tm \in Due :
    /\ timers' = timers \ {tm}
    /\ invs' = Invoke(tm.arg, "timer")
    /\ UNCHANGED <<now, nextId, timeout, lastFunc, lastRan, calls,
                   objVars, termVars, storeVars, strVars>>

InitDebounce == ObjIdle /\ OthersIdle

SpecDebounce == InitDebounce /\ [][DebounceCall \/ DebounceFire \/ Tick]_vars

\* the host keeps its clock running and runs the callback of a timer that is
\* due; the caller is free to stop calling
SpecDebounceFair == SpecDebounce /\ WF_vars(DebounceFire) /\ WF_vars(Tick)

----------------------------------------------------------------------------
(* throttle *)

\* limit - (Date.now() - lastRan)
trailingDelayFromNow(ran) == LimitMs - now
trailingDelay(ran) == LimitMs - (now - ran)

\* the function throttle returns, called at the instant now
ThrottleCall ==
  /\ Len(calls) < MaxCalls
  /\ Due = {}
  /\ LET arg == Len(calls) + 1
     IN IF Falsy(lastRan)
        THEN /\ invs' = Invoke(arg, "call")
             /\ lastRan' = Num(now)
             /\ UNCHANGED <<timers, lastFunc, nextId>>
        ELSE /\ timers' = setTimeout(clearTimeout(timers, lastFunc), nextId,
                                      trailingDelay(lastRan.v), arg)
             /\ lastFunc' = Num(nextId)
             /\ nextId' = nextId + 1
             /\ UNCHANGED <<invs, lastRan>>
  /\ calls' = Called
  /\ UNCHANGED <<now, timeout, objVars, termVars, storeVars, strVars>>

\* the timer callback of throttle
ThrottleFire ==
  \E tm \in Due :
    /\ timers' = timers \ {tm}
    /\ IF now - lastRan.v >= LimitMs
       THEN /\ invs' = Invoke(tm.arg, "timer")
            /\ lastRan' = Num(now)
       ELSE UNCHANGED <<invs, lastRan>>
    /\ UNCHANGED <<now, nextId, timeout, lastFunc, calls,
                   objVars, termVars, storeVars, strVars>>

InitThrottle == ObjIdle /\ OthersIdle

SpecThrottle == InitThrottle /\ [][ThrottleCall \/ ThrottleFire \/ Tick]_vars

\* the outcome of a wrapper call that ends by an exception
Thrown == [t |-> "throw", v |-> 0]

\* lastRan after func has thrown in the leading branch: the assignment
\* lastRan = Date.now() that follows func.apply is not reached
afterThrowSet(ran) == Num(now)
afterThrow(ran) == ran

\* a call of the wrapper in which func throws on the leading, synchronous
\* path: nothing catches the exception, it ends the wrapper call
ThrottleCallThrows ==
  /\ Len(calls) < MaxCalls
  /\ Due = {}
  /\ Falsy(lastRan)
  /\ invs' = Invoke(Len(calls) + 1, "call")
  /\ lastRan' = afterThrow(lastRan)
  /\ calls' = Append(calls, [t |-> now, arg |-> Len(calls) + 1, ret |-> Thrown])
  /\ UNCHANGED <<now, timers, nextId, timeout, lastFunc,
                 objVars, termVars, storeVars, strVars>>

SpecThrottleThrow ==
  InitThrottle /\ [][ThrottleCall \/ ThrottleCallThrows \/ ThrottleFire \/ Tick]_vars

----------------------------------------------------------------------------
(* createNamespacedStorage, in a browser (window and localStorage exist).   *)
(* localStorage maps key strings to strings; strings are sequences of       *)
(* one-character strings.                                                   *)

Colon == <<":">>
Namespaces == {<<"a">>, <<"a", ":", "b">>, <<"b">>}
StoreKeys == {<<"k">>, <<"b", ":", "k">>}

\* `${namespace}:${key}`
qualified(namespace, key) == namespace \o Colon \o key

\* JSON.stringify(value) and JSON.parse(item) of a non-negative integer
stringify(n) == IdxStr(n)
RECURSIVE parse(_)
parse(item) ==
  LET d == (CHOOSE i \in 1..10 : Digits[i] = item[Len(item)]) - 1
  IN IF Len(item) = 1 THEN d ELSE 10 * parse(SubSeq(item, 1, Len(item) - 1)) + d

\* key.startsWith(prefix)
startsWith(key, prefix) ==
  Len(prefix) <= Len(key) /\ SubSeq(key, 1, Len(prefix)) = prefix

\* localStorage.setItem, localStorage.removeItem
setItem(l, key, item) == {e \in l : e.k # key} \cup {[k |-> key, v |-> item]}
removeItem(l, key) == {e \in l : e.k # key}

\* get(key, defaultValue), with undefined given as the default
get(l, namespace, key) ==
  LET found == {e \in l : e.k = qualified(namespace, key)}
  IN IF found = {} THEN Undefined ELSE Num(parse((CHOOSE e \in found : TRUE).v))

\* set(key, value) on the storage of a namespace
StorageSet(namespace, key, value) ==
  /\ ls' = setItem(ls, qualified(namespace, key), stringify(value))
  /\ owned' = {o \in owned : ~(o.ns = namespace /\ o.key = key)}
                 \cup {[ns |-> namespace, key |-> key, val |-> Num(value)]}
  /\ lastOp' = [op |-> "set", ns |-> namespace]
  /\ UNCHANGED <<objVars, termVars, timeVars, strVars>>

\* remove(key) on the storage of a namespace
StorageRemove(namespace, key) ==
  /\ ls' = removeItem(ls, qualified(namespace, key))
  /\ owned' = {o \in owned : ~(o.ns = namespace /\ o.key = key)}
  /\ lastOp' = [op |-> "remove", ns |-> namespace]
  /\ UNCHANGED <<objVars, termVars, timeVars, strVars>>

\* clear() on the storage of a namespace: every key of localStorage that
\* starts with `${namespace}:` is removed
StorageClear(namespace) ==
  /\ ls' = {e \in ls : ~startsWith(e.k, namespace \o Colon)}
  /\ owned' = {o \in owned : o.ns # namespace}
  /\ lastOp' = [op |-> "clear", ns |-> namespace]
  /\ UNCHANGED <<objVars, termVars, timeVars, strVars>>

InitStorage == ObjIdle /\ TermIdle /\ TimeIdle /\ StrIdle /\ StoreIdle

SpecStorage ==
  InitStorage
    /\ [][\/ \E ns \in Namespaces, key \in StoreKeys, value \in 1..MaxVal :
              StorageSet(ns, key, value)
          \/ \E ns \in Namespaces, key \in StoreKeys : StorageRemove(ns, key)
          \/ \E ns \in Namespaces : StorageClear(ns)]_vars

----------------------------------------------------------------------------
(* truncate *)

\* s.substring(start, end): each bound is clamped to 0..s.length and the
\* smaller one is the start
substring(s, start, end) ==
  LET clamp(n) == IF n < 0 THEN 0 ELSE IF n > Len(s) THEN Len(s) ELSE n
      lo == IF clamp(start) <= clamp(end) THEN clamp(start) ELSE clamp(end)
      hi == IF clamp(start) <= clamp(end) THEN clamp(end) ELSE clamp(start)
  IN SubSeq(s, lo + 1, hi)

truncate(s, len, suf) ==
  IF Len(s) <= len THEN s
  ELSE substring(s, 0, len - Len(suf)) \o suf

\* the strings of at most n characters among cs
Strs(cs, n) == UNION {[1..k -> cs] : k \in 0..n}

InitTruncate ==
  /\ str \in Strs({"x", "y"}, MaxStr)
  /\ length \in 0..MaxStr
  /\ suffix \in Strs({"."}, MaxSuffix)
  /\ out = <<>>
  /\ ObjIdle /\ TermIdle /\ TimeIdle /\ StoreIdle

TruncateStep ==
  /\ pc = "init"
  /\ out' = truncate(str, length, suffix)
  /\ pc' = "truncated"
  /\ UNCHANGED <<heap, heap0, heapOp, a, b, res, mutAt, str, length, suffix,
                 termVars, timeVars, storeVars>>

SpecTruncate == InitTruncate /\ [][TruncateStep]_vars

----------------------------------------------------------------------------
(* The specifications of the structural functions *)

SpecClone == InitClone /\ [][DeepCloneStep \/ MutateResult \/ MutateInput]_vars

SpecMerge == InitMerge /\ [][DeepMergeStep \/ MutateResult]_vars

SpecFlatten == InitFlatten /\ [][FlattenStep]_vars

SpecEqual == InitEqual /\ [][IsEqualStep]_vars

----------------------------------------------------------------------------
(* Claims about deepClone *)

\* C1: for every Plain Value a, isEqual(a, deepClone(a)) is true.
C1_CloneIsEqual == pc = "cloned" => isEqual(heap, a, res)

\* C2: the clone shares no object or array with its input: every node
\* reachable from the clone was allocated by the call, and a later write to a
\* node of the clone leaves the input's contents as they were, and a later
\* write to a node of the input leaves the clone's contents as they were.
C2_CloneIndependent ==
  /\ pc = "cloned" =>
       /\ ReachFrom(heap, res) \cap ReachFrom(heap, a) = {}
       /\ ReachFrom(heap, res) \cap (1..Len(heap0)) = {}
  /\ (pc = "mutated" /\ mutAt \in ReachFrom(heapOp, res)) =>
       Read(heap, a) = Read(heap0, a)
  /\ (pc = "mutated" /\ mutAt \in ReachFrom(heapOp, a)) =>
       Read(heap, res) = Read(heapOp, res)

\* a nested node of the clone of a nested input has been written to
C2_Witness ==
  /\ pc = "mutated"
  /\ mutAt \in ReachFrom(heapOp, res)
  /\ mutAt # res.v
  /\ Read(heap, res) # Read(heapOp, res)

----------------------------------------------------------------------------
(* Claims about deepMerge.  a is target, b is source, both plain objects. *)

\* C3: deepMerge never mutates either argument: every object and array
\* reachable from target or source holds after the call what it held before.
C3_MergeNoMutation ==
  pc = "merged" =>
    \A p \in ReachFrom(heap0, a) \cup ReachFrom(heap0, b) : heap[p] = heap0[p]

\* a merge that recursed: some key holds a non-empty object in both arguments
C3_Witness ==
  /\ pc = "merged"
  /\ \E key \in KeySet(heap0, a) \cap KeySet(heap0, b) :
       /\ descends(heap0, Get(heap0, a, key))
       /\ descends(heap0, Get(heap0, b, key))

\* C4: for every key of source whose value is not a plain object (a
\* primitive, null or an array), result[key] is exactly source[key]; an array
\* of source replaces target's value whole, with its elements as they were.
C4_LeafOverwrite ==
  pc = "merged" =>
    \A key \in KeySet(heap0, b) :
      LET sv == Get(heap0, b, key)
      IN ~isObject(heap0, sv) =>
           /\ HasKey(heap, res, key)
           /\ Get(heap, res, key) = sv
           /\ Read(heap, Get(heap, res, key)) = Read(heap0, sv)

\* an array of source has replaced a non-empty array of target
C4_Witness ==
  /\ pc = "merged"
  /\ \E key \in KeySet(heap0, a) \cap KeySet(heap0, b) :
       /\ IsArray(heap0, Get(heap0, a, key))
       /\ IsArray(heap0, Get(heap0, b, key))
       /\ Len(heap0[Get(heap0, a, key).v].ents) > 0
       /\ Get(heap, res, key) = Get(heap0, b, key)

\* C5: for every key that source holds as a plain object and that target also
\* has, result[key] is deepMerge(target[key], source[key]) and carries the
\* keys of both target[key] and source[key], source winning on the leaves.
C5_NestedMerge ==
  pc = "merged" =>
    \A key \in KeySet(heap0, a) \cap KeySet(heap0, b) :
      LET tv == Get(heap0, a, key)
          sv == Get(heap0, b, key)
          rv == Get(heap, res, key)
          m == deepMerge(heap0, tv, sv)
      IN isObject(heap0, sv) =>
           /\ Read(heap, rv) = Read(m.h, m.r)
           /\ (IF IsRef(tv) THEN KeySet(heap0, tv) ELSE {}) \cup KeySet(heap0, sv)
                \subseteq KeySet(heap, rv)
           /\ \A k2 \in KeySet(heap0, sv) :
                ~isObject(heap0, Get(heap0, sv, k2)) =>
                  Get(heap, rv, k2) = Get(heap0, sv, k2)

\* C6: every key of target that source lacks is in the result with target's
\* value, and the result has no key that neither argument has.
C6_TargetKeysRetained ==
  pc = "merged" =>
    /\ \A key \in KeySet(heap0, a) \ KeySet(heap0, b) :
         /\ HasKey(heap, res, key)
         /\ Get(heap, res, key) = Get(heap0, a, key)
    /\ KeySet(heap, res) \subseteq KeySet(heap0, a) \cup KeySet(heap0, b)

\* each argument has a key the other lacks
C6_Witness ==
  /\ pc = "merged"
  /\ KeySet(heap0, a) \ KeySet(heap0, b) # {}
  /\ KeySet(heap0, b) \ KeySet(heap0, a) # {}

RECURSIVE Unconflicted(_, _, _)
\* the nodes of source below keys that meet nothing in target
Unconflicted(h, target, source) ==
  UNION {IF ~(IsRef(target) /\ HasKey(h, target, key))
         THEN ReachFrom(h, Get(h, source, key))
         ELSE IF isObject(h, Get(h, target, key)) /\ isObject(h, Get(h, source, key))
              THEN Unconflicted(h, Get(h, target, key), Get(h, source, key))
              ELSE {} :
         key \in KeySet(h, source)}

\* C7: below its top level the result shares no node with target, and shares
\* with source only sub-values at keys with no merge conflict.
C7_NoNestedAlias ==
  pc = "merged" =>
    LET below == ReachFrom(heap, res) \ {res.v}
    IN /\ below \cap ReachFrom(heap0, a) = {}
       /\ below \cap ReachFrom(heap0, b) \subseteq Unconflicted(heap0, a, b)

\* C8: when source[key] is a plain object and target has no such key,
\* result[key] is the very node source[key] is, and a later write to
\* result[key] shows through source[key].
C8_SourceAttached ==
  /\ pc = "merged" =>
       \A key \in KeySet(heap0, b) \ KeySet(heap0, a) :
         isObject(heap0, Get(heap0, b, key)) =>
           Get(heap, res, key) = Get(heap0, b, key)
  /\ pc = "mutated" =>
       \A key \in KeySet(heap0, b) \ KeySet(heap0, a) :
         (isObject(heap0, Get(heap0, b, key)) /\ mutAt = Get(heapOp, res, key).v) =>
           Read(heap, Get(heap, b, key)) # Read(heap0, Get(heap0, b, key))

\* the caller wrote to such a result[key]
C8_Witness ==
  /\ pc = "mutated"
  /\ \E key \in KeySet(heap0, b) \ KeySet(heap0, a) :
       /\ isObject(heap0, Get(heap0, b, key))
       /\ mutAt = Get(heapOp, res, key).v

----------------------------------------------------------------------------
(* Claims about flattenObject.  a is obj. *)

RECURSIVE Leaves(_, _, _)
\* the leaves of obj: [p |-> key path, v |-> value] for every value that is
\* a primitive, an array or an empty object
Leaves(h, obj, path) ==
  UNION {LET v == Get(h, obj, key)
         IN IF isObject(h, v) /\ KeySet(h, v) # {}
            THEN Leaves(h, v, Append(path, key))
            ELSE {[p |-> Append(path, key), v |-> v]} :
         key \in KeySet(h, obj)}

RECURSIVE Join(_)
\* a key path joined with '.'
Join(path) ==
  IF Len(path) = 1 THEN path[1] ELSE path[1] \o Dot \o Join(Tail(path))

RECURSIVE WellKeyed(_, _)
\* every key of obj and of the objects nested in it is non-empty and has no '.'
WellKeyed(h, obj) ==
  \A key \in KeySet(h, obj) :
    /\ key # <<>>
    /\ \A i \in 1..Len(key) : key[i] # "."
    /\ isObject(h, Get(h, obj, key)) => WellKeyed(h, Get(h, obj, key))

FlatIsLeaves ==
  LET L == Leaves(heap0, a, <<>>)
  IN /\ KeySet(heap, res) = {Join(l.p) : l \in L}
     /\ \A l \in L : Get(heap, res, Join(l.p)) = l.v
     /\ \A key \in KeySet(heap, res) : ~descends(heap, Get(heap, res, key))

\* C9 as stated: for every mapping obj, flattenObject(obj) has exactly one
\* entry per leaf, keyed by the leaf's key path joined with '.', holding the
\* leaf's value, and no non-empty mapping as a value.
C9_FlattenLeaves_Orig == pc = "flat" => FlatIsLeaves

\* C9 amended: the same, for obj whose keys at every depth are non-empty and
\* contain no '.'.
C9_FlattenLeaves == (pc = "flat" /\ WellKeyed(heap0, a)) => FlatIsLeaves

\* a flattened obj with a leaf two levels down, an empty object and an array
C9_Witness ==
  /\ pc = "flat"
  /\ WellKeyed(heap0, a)
  /\ \E l \in Leaves(heap0, a, <<>>) : Len(l.p) >= 2
  /\ \E l \in Leaves(heap0, a, <<>>) : IsRef(l.v)

FlatNoCollision ==
  LET L == Leaves(heap0, a, <<>>)
  IN Len(heap[res.v].ents) = Cardinality({l.p : l \in L})

\* C10 as stated: for every mapping obj, keys being arbitrary strings, no two
\* leaves get the same dotted path: the result has as many entries as obj has
\* leaves.
C10_NoCollision_Orig == pc = "flat" => FlatNoCollision

\* C10 amended: the same, for obj whose keys at every depth are non-empty and
\* contain no '.'.
C10_NoCollision == (pc = "flat" /\ WellKeyed(heap0, a)) => FlatNoCollision

\* a flattened obj with leaves at the top and below it
C10_Witness ==
  /\ pc = "flat"
  /\ WellKeyed(heap0, a)
  /\ \E l \in Leaves(heap0, a, <<>>) : Len(l.p) = 1
  /\ \E l \in Leaves(heap0, a, <<>>) : Len(l.p) >= 2

----------------------------------------------------------------------------
(* Claims about isEqual *)

\* C11: isEqual is symmetric: for all Plain Values a and b, isEqual(a, b)
\* and isEqual(b, a) give the same answer.
C11_Symmetric == pc = "equal" => res = Bool(isEqual(heap, b, a))

\* a mapping has been compared with one that has all its keys and more
C11_Witness ==
  /\ pc = "equal"
  /\ isObject(heap, a) /\ isObject(heap, b)
  /\ Len(ObjectKeys(heap, a)) < Len(ObjectKeys(heap, b))
  /\ KeySet(heap, a) \subseteq KeySet(heap, b)
  /\ KeySet(heap, a) # {}
  /\ res = Bool(FALSE)

\* x === y as the claims mean it, on primitives and references
StrictlyEqual(x, y) == x.t = y.t /\ x.v = y.v /\ x.t # "nan"

\* the three cases of structural equality: two mappings, two sequences, a
\* primitive or null on either side
StructuralCases ==
  /\ (isObject(heap, a) /\ isObject(heap, b)) =>
        (res = Bool(/\ KeySet(heap, a) = KeySet(heap, b)
                    /\ \A k \in KeySet(heap, a) :
                          isEqual(heap, Get(heap, a, k), Get(heap, b, k))))
  /\ (IsArray(heap, a) /\ IsArray(heap, b)) =>
        (res = Bool(/\ Len(heap[a.v].ents) = Len(heap[b.v].ents)
                    /\ \A i \in 1..Len(heap[a.v].ents) :
                          isEqual(heap, heap[a.v].ents[i].v, heap[b.v].ents[i].v)))
  /\ (~IsRef(a) \/ ~IsRef(b)) => (res = Bool(StrictlyEqual(a, b)))

\* C12 as stated: isEqual decides structural equality: two mappings are
\* equal exactly when their key sets are identical and isEqual holds for the
\* values at every key; two dense sequences exactly when they have the same
\* length and isEqual holds at every position; when either operand is a
\* primitive or null, exactly when the operands are strictly equal.
C12_Structural_Orig == pc = "equal" => StructuralCases

\* C12: an object or array compared with itself is equal; for every other
\* pair of operands isEqual decides structural equality by the three cases.
C12_Structural ==
  pc = "equal" =>
    IF IsRef(a) /\ a = b THEN res = Bool(TRUE) ELSE StructuralCases

\* two mappings built apart, each holding a nested value under the same key,
\* were found equal
C12_Witness ==
  /\ pc = "equal"
  /\ isObject(heap, a) /\ isObject(heap, b) /\ a # b
  /\ \E k \in KeySet(heap, a) : IsRef(Get(heap, a, k)) /\ IsRef(Get(heap, b, k))
  /\ res = Bool(TRUE)

----------------------------------------------------------------------------
(* Claims about debounce *)

\* call i is the last of its burst: no call follows it less than WaitMs later
LastOfBurst(i) == i = Len(calls) \/ calls[i + 1].t - calls[i].t >= WaitMs

\* the invocations of func that carry the arguments of call i
InvsOf(i) == {j \in 1..Len(invs) : invs[j].arg = i}

\* C13: every burst of calls of a debounced wrapper (a maximal run of calls
\* each less than WaitMs after the previous one) results in exactly one
\* invocation of func, WaitMs after the last call of the burst, with that
\* call's arguments and receiver; no other call of the burst is delivered.
C13_DebounceBurst ==
  \A i \in 1..Len(calls) :
    /\ \A j \in InvsOf(i) : invs[j].t = calls[i].t + WaitMs
    /\ Cardinality(InvsOf(i)) <= 1
    /\ ~LastOfBurst(i) => InvsOf(i) = {}
    /\ (LastOfBurst(i) /\ now > calls[i].t + WaitMs) => Cardinality(InvsOf(i)) = 1

\* three calls one millisecond apart gave one invocation, WaitMs after the
\* third and with its arguments (the scenario of calls at 0, 30, 60 of 100)
C13_Witness ==
  /\ Len(calls) = 3
  /\ calls[1].t = 0 /\ calls[2].t = 1 /\ calls[3].t = 2
  /\ invs = <<[t |-> 2 + WaitMs, arg |-> 3, via |-> "timer"]>>
  /\ now > 2 + WaitMs

\* C14: a call of a debounced wrapper never itself invokes func and returns
\* nothing; it cancels the timer that was pending, so func runs only from a
\* timer callback and only with the arguments of the latest call.
C14_CallNeverInvokes ==
  [][/\ Len(calls') > Len(calls) =>
          /\ invs' = invs
          /\ \A tm \in timers : tm \notin timers'
          /\ calls'[Len(calls')].ret = Undefined
     /\ Len(invs') > Len(invs) =>
          /\ calls' = calls
          /\ invs'[Len(invs')].via = "timer"
          /\ invs'[Len(invs')].arg = Len(calls)]_vars

\* a call was made while the timer of the call before it was pending, and
\* func has run since, with the later call's arguments
C14_Witness ==
  /\ Len(calls) >= 2
  /\ calls[2].t - calls[1].t < WaitMs
  /\ Len(invs) >= 1
  /\ invs[1].arg = 2

\* The two-state machine of a debounced wrapper: Idle when no timer is
\* pending, Pending with the time and the arguments of the invocation to come
MachineState == IF timers = {} THEN "Idle" ELSE "Pending"
MachinePending == {[due |-> tm.due, arg |-> tm.arg] : tm \in timers}

\* a call: Idle or Pending to Pending, the new timer replaces any other
MachineCall ==
  /\ Len(calls') = Len(calls) + 1
  /\ MachineState' = "Pending"
  /\ MachinePending' = {[due |-> now + WaitMs, arg |-> Len(calls')]}
  /\ invs' = invs /\ now' = now

\* the timer fires: Pending to Idle, with one invocation
MachineFire ==
  /\ MachineState = "Pending"
  /\ \E m \in MachinePending :
       /\ m.due = now
       /\ invs' = Append(invs, [t |-> now, arg |-> m.arg, via |-> "timer"])
  /\ MachineState' = "Idle"
  /\ calls' = calls /\ now' = now

\* time passes: no timer that is due is left waiting
MachineTick ==
  /\ now' = now + 1
  /\ \A m \in MachinePending : m.due > now
  /\ MachinePending' = MachinePending
  /\ calls' = calls /\ invs' = invs

\* C21: the debounce closure (one timer handle, overwritten by each call and
\* not reset when the timer fires) behaves as the two-state machine
\* {Idle, Pending}: every step is a step of the machine, so both give the
\* same invocations at the same times with the same arguments, and at most
\* one timer is ever pending.
C21_TwoStateMachine ==
  [][/\ MachineCall \/ MachineFire \/ MachineTick
     /\ Cardinality(timers') <= 1]_vars

\* a second cycle: a call made after the timer of an earlier call has fired,
\* while the closure still holds the handle of that fired timer, and its
\* own invocation
C21_Witness ==
  /\ Len(calls) = 2
  /\ Len(invs) = 2
  /\ invs[1].t <= calls[2].t
  /\ invs[2] = [t |-> calls[2].t + WaitMs, arg |-> 2, via |-> "timer"]
  /\ timers = {}
  /\ pending(timeout)

\* C24: when a debounced wrapper is called at least once and finitely often,
\* func is eventually invoked, the final invocation carries the arguments of
\* the very last call, and once the last timer has fired no timer is pending
\* and func is not invoked again until the wrapper is called again.
C24_DebounceLive ==
  /\ <>[](Len(calls) >= 1 =>
            /\ timers = {}
            /\ Len(invs) >= 1
            /\ invs[Len(invs)].arg = Len(calls))
  /\ [][(timers = {} /\ calls' = calls) => invs' = invs]_vars

\* every call allowed has been made, the last timer has fired with the last
\* call's arguments and nothing is pending
C24_Witness ==
  /\ Len(calls) = MaxCalls
  /\ timers = {}
  /\ Len(invs) >= 1
  /\ invs[Len(invs)] = [t |-> calls[MaxCalls].t + WaitMs, arg |-> MaxCalls, via |-> "timer"]

----------------------------------------------------------------------------
(* Claims about throttle *)

\* the instant of the leading call, and the later calls made strictly inside
\* its window
LeadT == calls[1].t
Window == {i \in 2..Len(calls) : LeadT < calls[i].t /\ calls[i].t < LeadT + LimitMs}
LastOf(S) == CHOOSE i \in S : \A j \in S : j <= i

\* the invocations after the first one that start no later than the end of
\* the window
TrailingInvs == {j \in 2..Len(invs) : invs[j].t <= LeadT + LimitMs}

\* C15: the leading call of a throttled wrapper, made at clock time T, invokes
\* func immediately; further calls strictly between T and T + LimitMs each
\* cancel and reschedule the trailing timer and result in exactly one
\* trailing invocation, at T + LimitMs, with the arguments of the last of
\* them, after which lastRan = T + LimitMs.
C15_ThrottleLeadTrail ==
  Len(calls) >= 1 =>
    /\ Len(invs) >= 1
    /\ invs[1] = [t |-> LeadT, arg |-> 1, via |-> "call"]
    /\ Window # {} =>
         /\ \A j \in TrailingInvs :
              invs[j] = [t |-> LeadT + LimitMs, arg |-> LastOf(Window), via |-> "timer"]
         /\ Cardinality(TrailingInvs) <= 1
         /\ now > LeadT + LimitMs => Cardinality(TrailingInvs) = 1
         /\ (Len(invs) = 2 /\ TrailingInvs # {}) => lastRan = Num(LeadT + LimitMs)
         /\ \A tm \in timers : tm.arg = Len(calls)

\* C16: a throttled wrapper invokes func at most once per LimitMs: the start
\* times of any two invocations are at least LimitMs apart.
C16_AtMostOncePerLimit ==
  \A i, j \in 1..Len(invs) : i < j => invs[j].t - invs[i].t >= LimitMs

\* C17: the first call ever of a throttled wrapper invokes func synchronously
\* and records lastRan = now, and it is the only call that does: every later
\* call invokes nothing and only replaces the trailing timer by its own.
C17_OnlyFirstCallSync ==
  [][Len(calls') > Len(calls) =>
       IF Len(calls) = 0
       THEN /\ invs' = <<[t |-> now, arg |-> 1, via |-> "call"]>>
            /\ lastRan' = Num(now)
       ELSE /\ invs' = invs
            /\ lastRan' = lastRan
            /\ Cardinality(timers') = 1
            /\ \A tm \in timers' : tm.arg = Len(calls')]_vars

----------------------------------------------------------------------------
(* Claims about the recursion *)

RECURSIVE Depth(_, _)
\* the nesting depth of a value: 0 for a primitive
Depth(h, x) ==
  IF ~IsRef(x) THEN 0
  ELSE LET ds == {Depth(h, h[x.v].ents[i].v) : i \in 1..Len(h[x.v].ents)}
       IN 1 + (IF ds = {} THEN 0 ELSE CHOOSE d \in ds : \A e \in ds : e <= d)

\* C18: deepClone, deepMerge, flattenObject and isEqual terminate with a
\* result and raise no error on every finite acyclic Plain Value: a running
\* call can always take its next step, never raises, has at most one frame
\* more on the stack than its arguments are deep, and has returned within
\* two steps per entry of its arguments plus one.
C18_Terminates ==
  /\ pc \in {"running", "returned"}
  /\ pc = "running" => ENABLED (LoopStep \/ ReturnStep)
  /\ pc = "returned" => stack = <<>>
  /\ LET da == Depth(heap, a)
         db == Depth(heap, b)
     IN Len(stack) <= 1 + (IF da < db THEN db ELSE da)
  /\ steps <= 2 * (Size(Read(heap, a)) + Size(Read(heap, b))) + 1

\* a call on an argument nested two deep has returned, after at least five
\* steps and with three frames on the stack at some point
C18_Witness ==
  /\ pc = "returned"
  /\ Depth(heap, a) = 2
  /\ steps >= 5

----------------------------------------------------------------------------
(* Claims about createNamespacedStorage *)

\* C19: clear() of the storage of a namespace only clears items in that
\* namespace: it removes every item set through that storage, and every item
\* set through the storage of a different namespace that was readable before
\* is readable with its value unchanged after.
C19_ClearOnlyOwn ==
  [][\A ns \in Namespaces :
       StorageClear(ns) =>
         \A o \in owned :
           IF o.ns = ns
           THEN get(ls', o.ns, o.key) = Undefined
           ELSE get(ls, o.ns, o.key) = o.val => get(ls', o.ns, o.key) = o.val]_vars

----------------------------------------------------------------------------
(* Claims about truncate *)

\* C20: truncate(str, length, suffix) returns a string of at most length
\* characters for every str, length >= 0 and suffix; it returns str unchanged
\* when str.length <= length, and otherwise a prefix of str followed by
\* suffix.
C20_TruncateAtMost ==
  pc = "truncated" =>
    /\ Len(out) <= length
    /\ IF Len(str) <= length THEN out = str
       ELSE \E k \in 0..Len(str) : out = SubSeq(str, 1, k) \o suffix

\* C22: whenever a trailing timer of a throttled wrapper fires, the guard
\* now - lastRan >= LimitMs holds, so the callback invokes func with the
\* arguments of the call that scheduled it and updates lastRan: no scheduled
\* trailing call is silently dropped; at most one trailing timer is pending.
C22_GuardHoldsAtFire ==
  [][/\ (calls' = calls /\ timers' # timers) =>
          /\ now - lastRan.v >= LimitMs
          /\ \E tm \in timers :
               /\ timers' = timers \ {tm}
               /\ invs' = Append(invs, [t |-> now, arg |-> tm.arg, via |-> "timer"])
          /\ lastRan' = Num(now)
     /\ Cardinality(timers') <= 1]_vars

\* a trailing timer rescheduled by a second call inside the window has fired
\* and invoked func with that call's arguments
C22_Witness ==
  /\ Len(calls) = 3
  /\ calls[2].t < calls[3].t /\ calls[3].t < calls[1].t + LimitMs
  /\ Len(invs) = 2
  /\ invs[2].via = "timer" /\ invs[2].arg = 3
  /\ lastRan = Num(invs[2].t)

\* lastRan as call i found it: the time of the latest invocation that
\* carried the arguments of an earlier call
RanAtCall(i) ==
  LET ts == {invs[j].t : j \in {k \in 1..Len(invs) : invs[k].arg < i}}
  IN CHOOSE t \in ts : \A u \in ts : u <= t

\* the time by which call i is to be served
ServeBy(i) ==
  IF calls[i].t > RanAtCall(i) + LimitMs THEN calls[i].t ELSE RanAtCall(i) + LimitMs

\* C23: every call of a throttled wrapper after the first one is served: once
\* the clock is past max(t, lastRan + LimitMs), func has been invoked no
\* later than that with the arguments of that call or of a later one, and
\* every invocation carries the arguments of the most recent call.
C23_EventuallyServed ==
  /\ [](\A i \in 2..Len(calls) :
          now > ServeBy(i) =>
            \E j \in 1..Len(invs) : invs[j].arg >= i /\ invs[j].t <= ServeBy(i))
  /\ [][Len(invs') > Len(invs) => invs'[Len(invs')].arg = Len(calls')]_vars

\* two calls inside the window of the leading call were served by one
\* invocation, at the end of the window, with the later call's arguments
C23_Witness ==
  /\ Len(calls) = 3
  /\ calls[1].t > 0
  /\ calls[1].t < calls[2].t /\ calls[2].t < calls[3].t
  /\ invs = <<[t |-> calls[1].t, arg |-> 1, via |-> "call"],
              [t |-> calls[1].t + LimitMs, arg |-> 3, via |-> "timer"]>>
  /\ now > calls[1].t + LimitMs

\* C25: when func throws during the leading, synchronous call of a throttled
\* wrapper the exception ends the wrapper call and the wrapper's state is as
\* before (lastRan stays unset, no timer is scheduled), so the next call is
\* again treated as a first call and invokes func synchronously.
C25_LeadingThrow ==
  [][Len(calls') > Len(calls) =>
       /\ calls'[Len(calls')].ret = Thrown =>
            /\ lastRan' = lastRan /\ Falsy(lastRan')
            /\ timers' = timers /\ lastFunc' = lastFunc
       /\ (Len(calls) >= 1 /\ calls[Len(calls)].ret = Thrown) =>
            invs' = Append(invs, [t |-> now, arg |-> Len(calls'), via |-> "call"])]_vars

\* func threw in the first call; the second call, made later, invoked func
\* synchronously, returned and recorded lastRan
C25_Witness ==
  /\ Len(calls) = 2
  /\ calls[1].ret = Thrown /\ calls[2].ret = Undefined
  /\ calls[2].t > calls[1].t
  /\ Len(invs) = 2 /\ invs[2].via = "call"
  /\ lastRan = Num(calls[2].t)
  /\ timers = {}

----------------------------------------------------------------------------
(* Claims about deepMerge and isEqual, continued *)

RECURSIVE HasLeaf(_, _)
\* some key path from mapping x leads to a leaf: a value that is no plain
\* container
HasLeaf(h, x) ==
  \E k \in KeySet(h, x) :
    LET v == Get(h, x, k)
    IN IF isObject(h, v) THEN HasLeaf(h, v) ELSE TRUE

RECURSIVE SourceWins(_, _, _, _)
\* every leaf of mapping s (in heap hs) is at the same key path in r (in heap
\* hr), with the same value
SourceWins(hs, s, hr, r) ==
  \A k \in KeySet(hs, s) :
    LET sv == Get(hs, s, k)
        rv == Get(hr, r, k)
    IN IF isObject(hs, sv)
       THEN HasLeaf(hs, sv) => (IsRef(rv) /\ SourceWins(hs, sv, hr, rv))
       ELSE HasKey(hr, r, k) /\ Read(hr, rv) = Read(hs, sv)

\* C26: in deepMerge(target, source) source wins at every depth: every key
\* path to a leaf of source leads to the same leaf value in the result,
\* whatever target holds along the path.
C26_SourceWins == pc = "merged" => SourceWins(heap0, b, heap, res)

\* the kind of a value: primitive, sequence or mapping
KindOf(h, x) == IF ~IsRef(x) THEN "prim" ELSE h[x.v].kind

\* C27: isEqual never reports a sequence equal to a mapping: isEqual(a, b) is
\* true only when a and b are of the same kind (both primitives, both
\* sequences or both mappings).
C27_SameKind ==
  (pc = "equal" /\ res = Bool(TRUE)) => KindOf(heap, a) = KindOf(heap, b)

====
